---- MODULE Spec2Model ----
(***************************************************************************)
(* The status cache of homebridge-trane-home, and the status document.     *)
(*                                                                         *)
(* throttle(fn, wait_ms) (src/src/throttle.ts) keeps two closure           *)
(* variables, cachedResult (the promise of the current fill cycle) and     *)
(* timeoutId (the last invalidation timer armed).                          *)
(*   Spec          the throttle under any caller of it and of its reset(); *)
(*   SpecLive      Spec, when fetches settle and due timers fire;          *)
(*   SpecClient    MobileClient of src/unnamed/part_000, which owns a      *)
(*                 throttle over the status GET and clears it after every  *)
(*                 successful POST;                                        *)
(*   SpecPlatform  Platform of src/src/platform.ts, which owns a throttle  *)
(*                 over MobileClient.status() of src/src/mobileClient.ts,  *)
(*                 whose post() clears nothing, with discoverDevices() and *)
(*                 the handlers it registers;                              *)
(*   SpecLookup    Platform.thermostat(id) and Platform.zone(tid, zid),    *)
(*                 which await the throttled status and then query it;     *)
(*   SpecModel     the queries of src/src/houseStatus.ts on one status     *)
(*                 document.                                               *)
(*                                                                         *)
(* Node runs one task at a time: every action below is one run-to-         *)
(* completion task (a call, a promise continuation, a timer callback).     *)
(***************************************************************************)
EXTENDS Naturals, Integers, Sequences, FiniteSets

\* ---------------------------------------------------------------- bounds
MaxFetches == 3      \* invocations of the wrapped fetch function
MaxGets    == 3      \* calls of get() / status() / houseStatus()
MaxPosts   == 1      \* calls of a mutation operation
MaxSuspended == 2   \* TargetTemperature onSet handlers suspended at a time
MaxLookups == 2     \* calls of Platform.thermostat / Platform.zone
MaxResets  == 1      \* calls of reset() made directly by the throttle's caller
MaxCalls   == 4      \* calls of the methods of the client of part_000

MaxChildren == 2     \* child links of a status document
MaxItems    == 2     \* items of a device-collection link

FetchIds == 1..MaxFetches
None     == 0        \* JavaScript undefined for cachedResult / timeoutId

Ops    == {"setMode", "setCoolSetpoint", "setHeatSetpoint"}
Errors == {"ETIMEDOUT", "E500"}     \* transport errors of a request

VARIABLES
  cachedResult,   \* throttle.ts:8   None or the id of the cached promise
  timeoutId,      \* throttle.ts:7   None or the id of the timer last armed
  fetchState,     \* promise of the f-th call of fn(): idle, pending, ok, fail
  promise,        \* the promise fn().finally(...) of that call, the one callers hold
  timers,         \* timer armed by the f-th fetch's finally: none, armed, fired, cleared
  settleOrder,    \* the fetches in the order they settled (the order the timers were armed)
  elapsed,        \* how many of them settled at least wait_ms ago (a prefix of settleOrder)
  fnCalls,        \* call counter of the wrapped fetch function
  waiters,        \* callers that were handed promise f while it was pending
  hits,           \* callers that were handed promise f after it settled
  posts,          \* calls of a write: [resp, out], the transport's answer to the
                  \* request ("none" when no request was issued) and what the
                  \* caller of the operation received
  nReset,         \* calls of reset() made by callers (not by the timer)
  startClean,     \* history: fetch f started with no fetch pending and no timer armed
  pendingAtStart, \* history: the fetches that were pending when fetch f started
  resetInFlight,  \* history: reset() was called by a caller while fetch f was pending
  resetAfter,     \* history: reset() was called by a caller after fetch f settled
  stored,         \* history: fetch f was the cached promise when it settled
  preWrite,       \* history: a write completed successfully after fetch f started
  raw,            \* houseStatus.ts:7  the status document a HouseStatus wraps:
                  \* the one the GET answered last carried
  ret,            \* what the last query of the document returned or threw
  discovery,      \* platform.ts:86  discoverDevices(): its phase and the fetch whose
                  \* snapshot the registered handlers captured t and z from
  setAwait,       \* platform.ts:133  for each fetch, the TargetTemperature onSet
                  \* handlers suspended at await this.zone(...) on its promise
  postSnap,       \* for posts[i], the fetch whose snapshot the Zone it used came from
  lookups         \* platform.ts:70-84  the calls of Platform.thermostat / zone:
                  \* [op, tid, zid, f, res], the promise awaited and the outcome

closureVars == <<cachedResult, timeoutId>>
fetchVars   == <<fetchState, promise, fnCalls>>
timerVars   == <<timers, settleOrder, elapsed>>
callVars    == <<waiters, hits>>
histVars    == <<nReset, startClean, pendingAtStart, resetInFlight, resetAfter, stored, preWrite>>
modelVars   == <<raw, ret>>
platVars    == <<discovery, setAwait, postSnap, lookups>>
vars == <<cachedResult, timeoutId, fetchState, promise, timers, settleOrder, elapsed,
          fnCalls, waiters, hits, posts, nReset, startClean, pendingAtStart, resetInFlight,
          resetAfter, stored, preWrite, raw, ret, discovery, setAwait, postSnap, lookups>>

Pending(f) == fetchState[f] = "pending"
Settled(f) == fetchState[f] \in {"ok", "fail"}
Armed      == {t \in FetchIds : timers[t] = "armed"}
InFlight   == {f \in FetchIds : Pending(f)}
\* wait_ms has passed since fetch f settled (since its timer was armed).
WindowElapsed(f) == \E k \in 1..elapsed : settleOrder[k] = f

RECURSIVE Sum(_, _)
Sum(g, S) == IF S = {} THEN 0 ELSE LET x == CHOOSE y \in S : TRUE IN g[x] + Sum(g, S \ {x})
\* Calls of get() made so far.
NumGets == Sum(waiters, FetchIds) + Sum(hits, FetchIds)

\* --------------------------------------------------------- houseStatus.ts

DEVICE_ITEM_TYPE       == "application/vnd.nexia.device+json"
THERMOSTAT_DEVICE_TYPE == "xxl_thermostat"
OtherItemType   == "application/vnd.nexia.collection+json"   \* some other child link
OtherDeviceType == "xxl_zone_sensor"                         \* some other device

SeqsUpTo(S, n) == UNION {[1..k -> S] : k \in 0..n}

\* The items a device collection is built from: thermostat 1 with zone 1,
\* thermostat 2 with zones 1 and 2, and a device that is no thermostat.
Items ==
  { [type |-> THERMOSTAT_DEVICE_TYPE, id |-> 1, zones |-> << [id |-> 1] >>],
    [type |-> THERMOSTAT_DEVICE_TYPE, id |-> 2, zones |-> << [id |-> 1], [id |-> 2] >>],
    [type |-> OtherDeviceType, id |-> 3, zones |-> << >>] }

\* The child links: a device collection with its items, or another link.
Children ==
  { [data |-> [item_type |-> DEVICE_ITEM_TYPE, items |-> its]] : its \in SeqsUpTo(Items, MaxItems) }
    \cup { [data |-> [item_type |-> OtherItemType, items |-> << >>]] }

\* The status documents (raw.result._links.child is kept as raw.child).
Docs == { [child |-> cs] : cs \in SeqsUpTo(Children, MaxChildren) }

\* The ids a caller looks up.
LookupThermostatIds == {1, 2, 3}
LookupZoneIds       == {1, 2}

\* Array.prototype.find, given the indexes I of the elements of a that pass
\* the test: the first of them, or undefined.  An optional value is a
\* sequence of length 0 (undefined) or 1.
find(a, I) == IF I = {} THEN << >> ELSE << a[CHOOSE i \in I : \A j \in I : i <= j] >>

\* What a call did: returned val, or threw.  val is the array returned, or the
\* optional value returned; a thrown Error carries its message and the ids
\* interpolated into it.
Return(v)     == [out |-> "return", val |-> v, msg |-> "", ids |-> << >>]
Throw(k, m, i) == [out |-> k, val |-> << >>, msg |-> m, ids |-> i]
\* Reading a property of undefined.
TypeError == Throw("TypeError", "Cannot read properties of undefined", << >>)

\* A thermostats() without the filter on the type of the device.
thermostats_noFilter(doc) ==
  LET children == doc.child
      found == find(children, {i \in DOMAIN children :
                                 children[i].data.item_type = DEVICE_ITEM_TYPE})
  IN IF found = << >> THEN TypeError ELSE Return(found[1].data.items)

\* HouseStatus.thermostats():
\*   found = children.find(c => c.data.item_type === DEVICE_ITEM_TYPE)
\*   dev = found?.data.items.filter(d => d.type === THERMOSTAT_DEVICE_TYPE)
\*   return dev.map(d => new Thermostat(d))
\* With no such child found is undefined, so is dev, and dev.map throws.
thermostats(doc) ==
  LET children == doc.child
      found == find(children, {i \in DOMAIN children :
                                 children[i].data.item_type = DEVICE_ITEM_TYPE})
  IN IF found = << >>
       THEN TypeError
       ELSE Return(SelectSeq(found[1].data.items, LAMBDA d : d.type = THERMOSTAT_DEVICE_TYPE))

\* HouseStatus.thermostat(id): this.thermostats().find(t => t.id === id)
thermostat(doc, id) ==
  LET ts == thermostats(doc)
  IN IF ts.out # "return" THEN ts
     ELSE Return(find(ts.val, {i \in DOMAIN ts.val : ts.val[i].id = id}))

\* Thermostat.zone(id): this.zones.find(z => z.id === id)
zone(t, id) == find(t.zones, {i \in DOMAIN t.zones : t.zones[i].id = id})

\* The feature lists of a zone of a snapshot, and the zones a write is called on.
FeatureLists ==
  { << >>,
    << [name |-> "thermostat_mode"] >>,
    << [name |-> "thermostat"] >>,
    << [name |-> "thermostat_mode"], [name |-> "thermostat"] >> }
Zones == { [features |-> fs] : fs \in FeatureLists }

\* Zone._thermostatFeature: this.raw.features.find(f => f.name === 'thermostat')
_thermostatFeature(z) ==
  find(z.features, {i \in DOMAIN z.features : z.features[i].name = "thermostat"})

\* Zone._thermostatModeFeature: ...find(f => f.name === 'thermostat_mode')
_thermostatModeFeature(z) ==
  find(z.features, {i \in DOMAIN z.features : z.features[i].name = "thermostat_mode"})

\* The first statement of setMode / setCoolSetpoint / setHeatSetpoint reads
\* the url: <feature getter>.actions.<action>.href.  With the feature missing
\* the getter returns undefined and reading .actions throws.
url(op, z) ==
  LET feature == IF op = "setMode" THEN _thermostatModeFeature(z) ELSE _thermostatFeature(z)
  IN IF feature = << >> THEN TypeError ELSE Return(<< op >>)

\* No query of the document was made yet.
NoCall == [op |-> "none", tid |-> None, zid |-> None, res |-> Return(<< >>)]

\* The state after throttle(fn, wait_ms) returned and nothing was called.
InitCache ==
  /\ cachedResult = None
  /\ timeoutId = None
  /\ fetchState = [f \in FetchIds |-> "idle"]
  /\ promise = [f \in FetchIds |-> "idle"]
  /\ timers = [f \in FetchIds |-> "none"]
  /\ settleOrder = << >>
  /\ elapsed = 0
  /\ fnCalls = 0
  /\ waiters = [f \in FetchIds |-> 0]
  /\ hits = [f \in FetchIds |-> 0]
  /\ posts = << >>
  /\ nReset = 0
  /\ startClean = [f \in FetchIds |-> FALSE]
  /\ pendingAtStart = [f \in FetchIds |-> {}]
  /\ resetInFlight = [f \in FetchIds |-> FALSE]
  /\ resetAfter = [f \in FetchIds |-> FALSE]
  /\ stored = [f \in FetchIds |-> FALSE]
  /\ preWrite = [f \in FetchIds |-> FALSE]
  /\ discovery = [phase |-> "idle", snap |-> None]
  /\ setAwait = [f \in FetchIds |-> 0]
  /\ postSnap = << >>
  /\ lookups = << >>

\* The cache and the platform at start, no status document being queried.
Init ==
  /\ InitCache
  /\ raw = [child |-> << >>]
  /\ ret = NoCall

\* ------------------------------------------------------------ throttle.ts

\* clearTimeout(id): cancels the timer if it is still pending, else nothing.
clearTimeout(tm, id) ==
  IF tm[id] = "armed" THEN [tm EXCEPT ![id] = "cleared"] ELSE tm

\* A reset() that spares a promise still pending (what section 4.2 of the
\* specification describes), instead of clearing cachedResult always.
reset_sparesInFlight(tm) ==
  /\ timers' = (IF timeoutId # None THEN clearTimeout(tm, timeoutId) ELSE tm)
  /\ timeoutId' = None
  /\ cachedResult' = (IF cachedResult # None /\ fetchState[cachedResult] = "pending"
                        THEN cachedResult ELSE None)

\* A reset() that cancels the timer and forgets to clear cachedResult.
reset_keepsValue(tm) ==
  /\ timers' = (IF timeoutId # None THEN clearTimeout(tm, timeoutId) ELSE tm)
  /\ timeoutId' = None
  /\ cachedResult' = cachedResult

\* A reset() that does one thing per call: it cancels the recorded timer if
\* there is one, and only otherwise drops the cached promise.
reset_oneAtATime(tm) ==
  /\ timers' = (IF timeoutId # None THEN clearTimeout(tm, timeoutId) ELSE tm)
  /\ timeoutId' = None
  /\ cachedResult' = (IF timeoutId # None THEN cachedResult ELSE None)

\* reset(), on the timer table tm:
\*   if (timeoutId) clearTimeout(timeoutId); timeoutId = cachedResult = undefined
reset(tm) ==
  /\ timers' = (IF timeoutId # None THEN clearTimeout(tm, timeoutId) ELSE tm)
  /\ timeoutId' = None
  /\ cachedResult' = None

\* History of a reset() made by a caller (direct, or through clearCache()).
noteReset ==
  /\ nReset' = nReset + 1
  /\ resetInFlight' = [f \in FetchIds |-> resetInFlight[f] \/ Pending(f)]
  /\ resetAfter' = [f \in FetchIds |-> resetAfter[f] \/ Settled(f)]

\* fn(): the f-th GET of the house status is issued.
fn(f) ==
  /\ fetchState' = [fetchState EXCEPT ![f] = "pending"]
  /\ promise' = [promise EXCEPT ![f] = "pending"]
  /\ fnCalls' = fnCalls + 1
  /\ startClean' = [startClean EXCEPT ![f] = (InFlight = {} /\ Armed = {})]
  /\ pendingAtStart' = [pendingAtStart EXCEPT ![f] = InFlight]

\* A doThrottle() without the if (!cachedResult) test: every call fetches.
doThrottle_noCoalesce ==
  /\ NumGets < MaxGets
  /\ fnCalls < MaxFetches
  /\ fn(fnCalls + 1)
  /\ cachedResult' = fnCalls + 1
  /\ waiters' = [waiters EXCEPT ![fnCalls + 1] = 1]
  /\ UNCHANGED hits
  /\ UNCHANGED <<timeoutId, timerVars, resetInFlight, nReset, resetAfter, stored, preWrite,
                 modelVars>>

\* A doThrottle() that caches the value instead of the promise: while the
\* fetch is pending there is nothing cached yet, and every call fetches.
doThrottle_cachesValue ==
  /\ NumGets < MaxGets
  /\ IF cachedResult = None \/ Pending(cachedResult)
       THEN /\ fnCalls < MaxFetches
            /\ fn(fnCalls + 1)
            /\ cachedResult' = fnCalls + 1
            /\ waiters' = [waiters EXCEPT ![fnCalls + 1] = 1]
            /\ UNCHANGED hits
       ELSE /\ hits' = [hits EXCEPT ![cachedResult] = @ + 1]
            /\ UNCHANGED <<waiters, cachedResult, fetchVars, startClean, pendingAtStart>>
  /\ UNCHANGED <<timeoutId, timerVars, resetInFlight, nReset, resetAfter, stored, preWrite,
                 modelVars>>

\* doThrottle():
\*   if (!cachedResult) cachedResult = fn().finally(...); return cachedResult
doThrottle ==
  /\ NumGets < MaxGets
  /\ IF cachedResult = None
       THEN /\ fnCalls < MaxFetches
            /\ fn(fnCalls + 1)
            /\ cachedResult' = fnCalls + 1
            /\ waiters' = [waiters EXCEPT ![fnCalls + 1] = 1]
            /\ UNCHANGED hits
       ELSE /\ IF Pending(cachedResult)
                 THEN /\ waiters' = [waiters EXCEPT ![cachedResult] = @ + 1]
                      /\ UNCHANGED hits
                 ELSE /\ hits' = [hits EXCEPT ![cachedResult] = @ + 1]
                      /\ UNCHANGED waiters
            /\ UNCHANGED <<cachedResult, fetchVars, startClean, pendingAtStart>>
  /\ UNCHANGED <<timeoutId, timerVars, resetInFlight, nReset, resetAfter, stored, preWrite,
                 modelVars>>

\* The callback given to finally(): timeoutId = setTimeout(reset, wait_ms).
\* It runs when the fetch settles, whatever the outcome.
finallyCallback(f) ==
  /\ timers' = [timers EXCEPT ![f] = "armed"]
  /\ settleOrder' = Append(settleOrder, f)
  /\ timeoutId' = f

\* A settlement that does not cache failures: catch(reset) in place of
\* finally(arm the timer) when the fetch rejects.
FetchSettles_dropsFailure(f, outcome) ==
  /\ Pending(f)
  /\ fetchState' = [fetchState EXCEPT ![f] = outcome]
  /\ promise' = [promise EXCEPT ![f] = outcome]
  /\ IF outcome = "fail"
       THEN /\ reset(timers)
            /\ UNCHANGED settleOrder
       ELSE /\ finallyCallback(f)
            /\ UNCHANGED cachedResult
  /\ stored' = [stored EXCEPT ![f] = (cachedResult = f)]
  /\ UNCHANGED <<fnCalls, elapsed, callVars, posts,
                 startClean, pendingAtStart, resetInFlight, nReset, resetAfter, preWrite,
                 modelVars, platVars>>

\* A settlement through then(arm, arm) in place of finally(arm): the timer is
\* armed, and the callers' promise resolves whatever the fetch did.
FetchSettles_swallows(f, outcome) ==
  /\ Pending(f)
  /\ fetchState' = [fetchState EXCEPT ![f] = outcome]
  /\ finallyCallback(f)
  /\ promise' = [promise EXCEPT ![f] = "ok"]
  /\ stored' = [stored EXCEPT ![f] = (cachedResult = f)]
  /\ UNCHANGED <<cachedResult, fnCalls, elapsed, callVars, posts,
                 startClean, pendingAtStart, resetInFlight, nReset, resetAfter, preWrite,
                 modelVars, platVars>>

\* A settlement through then(arm) in place of finally(arm): the timer is armed
\* only when the fetch resolved.
settles_thenOnly(f, outcome) ==
  /\ Pending(f)
  /\ fetchState' = [fetchState EXCEPT ![f] = outcome]
  /\ IF outcome = "ok"
       THEN finallyCallback(f)
       ELSE /\ settleOrder' = Append(settleOrder, f)
            /\ UNCHANGED <<timers, timeoutId>>
  /\ promise' = [promise EXCEPT ![f] = outcome]
  /\ stored' = [stored EXCEPT ![f] = (cachedResult = f)]
  /\ UNCHANGED <<cachedResult, fnCalls, elapsed, callVars,
                 startClean, pendingAtStart, resetInFlight, nReset, resetAfter, preWrite,
                 ret>>

\* The promise of fn() settles: resolved with the house status or rejected with
\* a transport error.  finally() leaves the outcome as it is, every caller that
\* holds the promise receives it, and cachedResult is not touched.
settles(f, outcome) ==
  /\ Pending(f)
  /\ fetchState' = [fetchState EXCEPT ![f] = outcome]
  /\ finallyCallback(f)
  /\ promise' = [promise EXCEPT ![f] = outcome]
  /\ stored' = [stored EXCEPT ![f] = (cachedResult = f)]
  /\ UNCHANGED <<cachedResult, fnCalls, elapsed, callVars,
                 startClean, pendingAtStart, resetInFlight, nReset, resetAfter, preWrite,
                 ret>>

\* The settlement, when the callers do nothing further with the outcome.
FetchSettles(f, outcome) ==
  /\ settles(f, outcome)
  /\ UNCHANGED <<raw, posts, platVars>>

\* A timer that may fire before wait_ms is over (setTimeout(reset) with the
\* delay left out).
TimerFires_early(t) ==
  /\ timers[t] = "armed"
  /\ reset([timers EXCEPT ![t] = "fired"])
  /\ UNCHANGED <<fetchVars, settleOrder, elapsed, callVars, posts, histVars,
                 modelVars, platVars>>

\* A timer armed by setTimeout(reset, wait_ms) fires: no earlier than due.
TimerFires(t) ==
  /\ timers[t] = "armed"
  /\ WindowElapsed(t)
  /\ reset([timers EXCEPT ![t] = "fired"])
  /\ UNCHANGED <<fetchVars, settleOrder, elapsed, callVars, posts, histVars,
                 modelVars, platVars>>

\* Time passes: wait_ms is over for the k fetches that settled first.  The
\* timers all wait wait_ms, so they fall due in the order they were armed.
TimePasses(k) ==
  /\ k \in (elapsed + 1)..Len(settleOrder)
  /\ elapsed' = k
  /\ UNCHANGED <<closureVars, fetchVars, timers, settleOrder, callVars, posts, histVars,
                 modelVars, platVars>>

\* A caller of the throttled function calls it, or calls its reset().
get == doThrottle /\ UNCHANGED <<posts, platVars>>

CallReset ==
  /\ nReset < MaxResets
  /\ reset(timers)
  /\ noteReset
  /\ UNCHANGED <<fetchVars, settleOrder, elapsed, callVars, posts,
                 startClean, pendingAtStart, stored, preWrite, modelVars, platVars>>

\* The throttle primitive under any caller.
Next ==
  \/ get
  \/ CallReset
  \/ \E f \in FetchIds, o \in {"ok", "fail"} : FetchSettles(f, o)
  \/ \E t \in FetchIds : TimerFires(t)
  \/ \E k \in 1..MaxFetches : TimePasses(k)

Spec == Init /\ [][Next]_vars

\* The request of a started fetch is answered or times out, time passes, and
\* the event loop runs a timer that is due.
Fairness ==
  /\ \A f \in FetchIds : WF_vars(\E o \in {"ok", "fail"} : FetchSettles(f, o))
  /\ \A t \in FetchIds : WF_vars(TimerFires(t))
  /\ WF_vars(\E k \in 1..MaxFetches : TimePasses(k))

SpecLive == Spec /\ Fairness

\* ---------------------------------------------- MobileClient (part_000)

\* Calls of clearCache() made by post() so far, and made by a user of the
\* client; and the calls of the client's methods made so far.
clearedByPost == Cardinality({i \in DOMAIN posts : posts[i].resp = "ok"})
directClears  == nReset - clearedByPost
clientCalls   == NumGets + Len(posts) + directClears

\* status(): return this._status()
status ==
  /\ clientCalls < MaxCalls
  /\ doThrottle
  /\ UNCHANGED <<posts, platVars>>

\* clearCache(): this._status.reset()
clearCache ==
  /\ reset(timers)
  /\ noteReset

\* clearCache() is public: a user of the client calls it.
callClearCache ==
  /\ clientCalls < MaxCalls
  /\ directClears < MaxResets
  /\ clearCache
  /\ UNCHANGED <<fetchVars, settleOrder, elapsed, callVars, posts,
                 startClean, pendingAtStart, stored, preWrite, modelVars, platVars>>

\* Zone.setMode / setCoolSetpoint / setHeatSetpoint: the url is read from the
\* zone's feature and post() issues the request; the task suspends at await.
postStart(op) ==
  /\ op \in Ops
  /\ clientCalls < MaxCalls
  /\ Len(posts) < MaxPosts
  /\ posts' = Append(posts, [resp |-> "pending", out |-> "pending"])
  /\ UNCHANGED <<closureVars, fetchVars, timerVars, callVars, histVars,
                 modelVars, platVars>>

\* Zone.setMode / setCoolSetpoint / setHeatSetpoint on a zone without the
\* feature: reading the url throws, post() is not reached, and the caller's
\* promise rejects with the TypeError.
setThrows(op, z) ==
  /\ op \in Ops
  /\ clientCalls < MaxCalls
  /\ Len(posts) < MaxPosts
  /\ url(op, z).out = "TypeError"
  /\ posts' = Append(posts, [resp |-> "none", out |-> url(op, z).out])
  /\ UNCHANGED <<closureVars, fetchVars, timerVars, callVars, histVars,
                 modelVars, platVars>>

\* The request of posts[i] succeeds: the server applied the write.  What is
\* common to both clients.
postApplied(i) ==
  /\ i \in 1..Len(posts)
  /\ posts[i].resp = "pending"
  /\ posts' = [posts EXCEPT ![i].resp = "ok", ![i].out = "ok"]
  /\ preWrite' = [f \in FetchIds |-> preWrite[f] \/ fetchState[f] # "idle"]

\* A post() that returns the response without clearing the cache.
postOk_noClear(i) ==
  /\ postApplied(i)
  /\ UNCHANGED <<closureVars, fetchVars, timerVars, callVars,
                 startClean, pendingAtStart, resetInFlight, nReset, resetAfter, stored,
                 modelVars, platVars>>

\* post(), after the await, when the request succeeded:
\*   this.clearCache(); return ret
postOk(i) ==
  /\ postApplied(i)
  /\ clearCache
  /\ UNCHANGED <<fetchVars, settleOrder, elapsed, callVars, startClean,
                 pendingAtStart, stored, modelVars, platVars>>

\* A post() that clears the cache in a finally block, failed request or not.
postFail_clears(i, e) ==
  /\ i \in 1..Len(posts)
  /\ posts[i].resp = "pending"
  /\ posts' = [posts EXCEPT ![i].resp = e, ![i].out = e]
  /\ clearCache
  /\ UNCHANGED <<fetchVars, settleOrder, elapsed, callVars, startClean,
                 pendingAtStart, stored, preWrite, modelVars, platVars>>

\* post(), when the awaited request rejects with e: the await throws, the
\* rest of post() does not run, and the caller's promise rejects with e.
postFail(i, e) ==
  /\ i \in 1..Len(posts)
  /\ posts[i].resp = "pending"
  /\ posts' = [posts EXCEPT ![i].resp = e, ![i].out = e]
  /\ UNCHANGED <<closureVars, fetchVars, timerVars, callVars, histVars,
                 modelVars, platVars>>

\* The program of part_000: MobileClient and the Zone writes that use it.
NextClient ==
  \/ status
  \/ callClearCache
  \/ \E f \in FetchIds, o \in {"ok", "fail"} : FetchSettles(f, o)
  \/ \E t \in FetchIds : TimerFires(t)
  \/ \E k \in 1..MaxFetches : TimePasses(k)
  \/ \E op \in Ops : postStart(op)
  \/ \E op \in Ops, z \in Zones : setThrows(op, z)
  \/ \E i \in 1..MaxPosts : postOk(i)
  \/ \E i \in 1..MaxPosts, e \in Errors : postFail(i, e)

SpecClient == Init /\ [][NextClient]_vars

\* ------------------------------- Platform (platform.ts + mobileClient.ts)

\* houseStatus(): return this._getStatus(), the throttle over client.status()
houseStatus == doThrottle

\* MobileClient.post() of mobileClient.ts: const ret = await ...; return ret.
\* Nothing is reset ("TODO: reset status on POST to refresh", platform.ts:66).
mobilePostOk(i) ==
  /\ postApplied(i)
  /\ UNCHANGED <<closureVars, fetchVars, timerVars, callVars,
                 startClean, pendingAtStart, resetInFlight, nReset, resetAfter, stored,
                 modelVars, platVars>>

\* The snapshot fetched last: the latest fetch of order that resolved.
latestSnapshot(order, state) ==
  LET I == {k \in DOMAIN order : state[order[k]] = "ok"}
  IN IF I = {} THEN None ELSE order[CHOOSE k \in I : \A j \in I : j <= k]

\* MobileClient.setMode / setCoolSetpoint / setHeatSetpoint(zone, value): the
\* url is read from the zone's feature, which throws if the feature is
\* missing, and post() issues the request.
issued(op, z) ==
  IF url(op, z).out = "return"
    THEN [resp |-> "pending", out |-> "pending"]
    ELSE [resp |-> "none", out |-> url(op, z).out]

\* The write op is called with the zone z of the snapshot of fetch f; latest
\* is the snapshot fetched last at that moment.
setZone(op, z, f, latest) ==
  /\ posts' = Append(posts, issued(op, z))
  /\ postSnap' = Append(postSnap, [used |-> f, latest |-> latest])

\* The TargetTemperature onSet handlers suspended at their await.
Suspended == Sum(setAwait, FetchIds)

\* One more write handler may be called (bounded by MaxPosts).
mayCallWrite == Len(posts) < MaxPosts

\* What a TargetTemperature onSet handler does once it has the zone: no
\* write ("none": the lookup failed, or the mode is neither COOL nor HEAT),
\* or setCoolSetpoint / setHeatSetpoint on the zone it was given.
Decisions == {"none", "setCoolSetpoint", "setHeatSetpoint"} \X Zones

\* discoverDevices(), called once when the host finished launching: it calls
\* houseStatus(), the first call there is, and suspends at the await.
discoverDevices ==
  /\ discovery.phase = "idle"
  /\ houseStatus
  /\ discovery' = [phase |-> "awaiting", snap |-> cachedResult']
  /\ UNCHANGED <<posts, setAwait, postSnap, lookups>>

\* An onGet handler (platform.ts:103, 121-131, 143-154): this.zone(...) or
\* this.thermostat(...) calls houseStatus(), and what follows only reads.
onGet ==
  /\ discovery.phase = "registered"
  /\ houseStatus
  /\ UNCHANGED <<posts, platVars>>

\* The onSet handlers of TargetHeatingCoolingState, CoolingThresholdTemperature
\* and HeatingThresholdTemperature (platform.ts:156-168): the write is called
\* with z, the Zone discoverDevices() was iterating over when it registered
\* the handler.  The handler awaits nothing before the write, so it runs
\* whatever other handlers are suspended.
onSet(op, z) ==
  /\ discovery.phase = "registered"
  /\ mayCallWrite
  /\ setZone(op, z, discovery.snap, latestSnapshot(settleOrder, fetchState))
  /\ UNCHANGED <<closureVars, fetchVars, timerVars, callVars, histVars, modelVars,
                 discovery, setAwait, lookups>>

\* The rest of the onSet handlers of TargetTemperature (platform.ts:133-141)
\* that awaited the promise of fetch f, run in the order they were called
\* when the promise has settled with outcome o.  ds[j] is what the j-th of
\* them does.  A handler whose await rejected ends without a write.
onSetTargetResumes(f, o, ds, latest) ==
  LET writes == IF o = "ok" THEN SelectSeq(ds, LAMBDA d : d[1] # "none") ELSE << >>
  IN /\ posts' = posts \o [j \in 1..Len(writes) |-> issued(writes[j][1], writes[j][2])]
     /\ postSnap' = postSnap \o [j \in 1..Len(writes) |-> [used |-> f, latest |-> latest]]

\* The onSet handler of TargetTemperature (platform.ts:132-142) is called:
\* await this.zone(t.id, z.id) calls houseStatus().  If the promise returned
\* has already settled the handler goes on in the microtasks of this task;
\* else it is suspended until the promise settles.
onSetTarget(w, z) ==
  /\ discovery.phase = "registered"
  /\ mayCallWrite
  /\ houseStatus
  /\ IF cachedResult # None /\ Settled(cachedResult)
       THEN /\ onSetTargetResumes(cachedResult, promise[cachedResult], << <<w, z>> >>,
                                  latestSnapshot(settleOrder, fetchState))
            /\ UNCHANGED setAwait
       ELSE /\ Suspended < MaxSuspended
            /\ setAwait' = [setAwait EXCEPT ![cachedResult'] = @ + 1]
            /\ UNCHANGED <<posts, postSnap>>
  /\ UNCHANGED <<discovery, lookups>>

\* The promise of client.status() settles, and the handlers that await it go
\* on in the microtasks of the same task: discoverDevices() registers the
\* handlers of the zones of the snapshot (registered = FALSE: the snapshot has
\* no thermostat with a zone, or thermostats() threw), and the suspended
\* TargetTemperature handlers go on.
getStatusSettles(f, o, registered, ds) ==
  /\ settles(f, o)
  /\ discovery' =
       IF discovery.phase = "awaiting" /\ discovery.snap = f
         THEN IF o = "ok" /\ registered
                THEN [phase |-> "registered", snap |-> f]
                ELSE [phase |-> "failed", snap |-> None]
         ELSE discovery
  /\ Len(ds) = setAwait[f]
  /\ onSetTargetResumes(f, o, ds, latestSnapshot(settleOrder', fetchState'))
  /\ setAwait' = [setAwait EXCEPT ![f] = 0]
  /\ UNCHANGED <<raw, lookups>>

NextPlatform ==
  \/ discoverDevices
  \/ onGet
  \/ \E op \in Ops, z \in Zones : onSet(op, z)
  \/ \E w \in {"none", "setCoolSetpoint", "setHeatSetpoint"}, z \in Zones : onSetTarget(w, z)
  \/ \E f \in FetchIds, o \in {"ok", "fail"}, registered \in BOOLEAN,
        ds \in SeqsUpTo(Decisions, MaxSuspended) : getStatusSettles(f, o, registered, ds)
  \/ \E t \in FetchIds : TimerFires(t)
  \/ \E k \in 1..MaxFetches : TimePasses(k)
  \/ \E i \in 1..(MaxPosts + MaxSuspended) : mobilePostOk(i)
  \/ \E i \in 1..(MaxPosts + MaxSuspended), e \in Errors : postFail(i, e)

SpecPlatform == Init /\ [][NextPlatform]_vars

\* --------------------------- Platform.thermostat / Platform.zone lookups

\* Platform.thermostat(id), once houseStatus() resolved with the document:
\*   ret = status.thermostat(id); if (!ret) throw new Error(`thermostat not found: ${id}`)
Platform_thermostat(doc, id) ==
  LET r == thermostat(doc, id)
  IN IF r.out # "return" THEN r
     ELSE IF r.val = << >> THEN Throw("Error", "thermostat not found", << id >>)
     ELSE r

\* Platform.zone(tid, zid):
\*   ret = (await this.thermostat(tid)).zone(zid)
\*   if (!ret) throw new Error(`zone not found: ${zid} for thermostat: ${tid}`)
Platform_zone(doc, tid, zid) ==
  LET t == Platform_thermostat(doc, tid)
  IN IF t.out # "return" THEN t
     ELSE LET z == zone(t.val[1], zid)
          IN IF z = << >> THEN Throw("Error", "zone not found", << zid, tid >>)
             ELSE Return(z)

\* A lookup whose promise has not settled yet.
Awaiting == [out |-> "pending", val |-> << >>, msg |-> "", ids |-> << >>]
\* await this.houseStatus() throws what the status request was rejected with,
\* and the lookup rejects with it.
TransportError == Throw("TransportError", "", << >>)

\* What the lookup l comes to when the promise it awaits settles with o, the
\* house status being doc.
lookupResult(l, o, doc) ==
  IF o # "ok" THEN TransportError
  ELSE IF l.op = "thermostat" THEN Platform_thermostat(doc, l.tid)
  ELSE Platform_zone(doc, l.tid, l.zid)

\* A lookup is called: await this.houseStatus() calls the throttle and the
\* task suspends.  If the promise returned has already settled the lookup
\* goes on in the microtasks of this task, else when the promise settles.
\* A cached promise that has resolved is the GET answered last (no fetch
\* starts while another is cached), so its document is raw.
lookup(op, tid, zid) ==
  /\ Len(lookups) < MaxLookups
  /\ houseStatus
  /\ LET l == [op |-> op, tid |-> tid, zid |-> zid, f |-> cachedResult', res |-> Awaiting]
     IN lookups' = Append(lookups,
          IF cachedResult # None /\ Settled(cachedResult)
            THEN [l EXCEPT !.res = lookupResult(l, promise[cachedResult], raw)]
            ELSE l)
  /\ UNCHANGED <<posts, discovery, setAwait, postSnap>>

\* Platform.thermostat(id) is called.
askThermostat(id) ==
  /\ id \in LookupThermostatIds
  /\ lookup("thermostat", id, None)

\* Platform.zone(tid, zid) is called.
askZone(tid, zid) ==
  /\ tid \in LookupThermostatIds /\ zid \in LookupZoneIds
  /\ lookup("zone", tid, zid)

\* The GET of fetch f is answered: with the document doc, which the promise
\* of client.status() resolves with (new HouseStatus(doc)), or with an error.
\* The lookups that await the promise go on in the microtasks of the same
\* task, on that document.
lookupSettles(f, o, doc) ==
  /\ settles(f, o)
  /\ raw' = IF o = "ok" THEN doc ELSE raw
  /\ lookups' = [i \in DOMAIN lookups |->
                   IF lookups[i].f = f /\ lookups[i].res = Awaiting
                     THEN [lookups[i] EXCEPT !.res = lookupResult(lookups[i], o, doc)]
                     ELSE lookups[i]]
  /\ UNCHANGED <<posts, discovery, setAwait, postSnap>>

NextLookup ==
  \/ \E id \in LookupThermostatIds : askThermostat(id)
  \/ \E tid \in LookupThermostatIds, zid \in LookupZoneIds : askZone(tid, zid)
  \/ \E f \in FetchIds, doc \in Docs : lookupSettles(f, "ok", doc)
  \/ \E f \in FetchIds : lookupSettles(f, "fail", raw)
  \/ \E t \in FetchIds : TimerFires(t)
  \/ \E k \in 1..MaxFetches : TimePasses(k)

SpecLookup == Init /\ [][NextLookup]_vars

\* ------------------------------------- queries of one status document

\* The status document the queries run on is any of Docs; the cache is not
\* involved.
InitModel ==
  /\ InitCache
  /\ raw \in Docs
  /\ ret = NoCall

\* HouseStatus.thermostats() is called on the document.
askThermostats ==
  /\ ret' = [op |-> "thermostats", tid |-> None, zid |-> None, res |-> thermostats(raw)]
  /\ UNCHANGED <<raw, closureVars, fetchVars, timerVars, callVars, posts, histVars, platVars>>

\* HouseStatus.thermostat(id) is called on the document.
askHouseThermostat(id) ==
  /\ ret' = [op |-> "thermostat", tid |-> id, zid |-> None, res |-> thermostat(raw, id)]
  /\ UNCHANGED <<raw, closureVars, fetchVars, timerVars, callVars, posts, histVars, platVars>>

NextModel ==
  \/ askThermostats
  \/ \E id \in LookupThermostatIds : askHouseThermostat(id)

SpecModel == InitModel /\ [][NextModel]_vars

\* ------------------------------------------------------------ type check

TypeOK ==
  /\ cachedResult \in {None} \cup FetchIds
  /\ timeoutId \in {None} \cup FetchIds
  /\ fetchState \in [FetchIds -> {"idle", "pending", "ok", "fail"}]
  /\ promise \in [FetchIds -> {"idle", "pending", "ok", "fail"}]
  /\ timers \in [FetchIds -> {"none", "armed", "fired", "cleared"}]
  /\ fnCalls = Cardinality({f \in FetchIds : fetchState[f] # "idle"})
  /\ elapsed \in 0..Len(settleOrder)
  /\ NumGets <= MaxGets
  /\ Len(posts) <= MaxPosts + MaxSuspended
  /\ nReset <= MaxResets + MaxPosts
  /\ raw \in Docs
  /\ discovery.phase \in {"idle", "awaiting", "registered", "failed"}
  /\ discovery.snap \in {None} \cup FetchIds
  /\ setAwait \in [FetchIds -> 0..MaxSuspended]
  /\ Suspended <= MaxSuspended
  /\ \A f \in FetchIds : setAwait[f] > 0 => Pending(f)
  /\ Len(lookups) <= MaxLookups
  /\ Len(postSnap) \in {0, Len(posts)}

\* ---------------------------------------------------------------- claims

\* The cycle of fetch f is undisturbed: it started from the empty cache (no
\* promise cached, no fetch pending, no timer armed) and no caller has called
\* reset() since.
Undisturbed(f) == startClean[f] /\ ~resetInFlight[f] /\ ~resetAfter[f]

\* C1  Single-flight.  A get() issued while fetch f is pending, f having
\* started from the empty cache with no reset() since, calls fn no further
\* time and is handed the promise of f: N such callers, one invocation, one
\* promise, hence one result.
C1_SingleFlight ==
  [][\A f \in FetchIds :
       (get /\ Pending(f) /\ startClean[f] /\ ~resetInFlight[f])
         => /\ fnCalls' = fnCalls
            /\ cachedResult' = f
            /\ waiters'[f] = waiters[f] + 1
            /\ promise'[f] = "pending"]_vars

\* Three callers of one cycle, one invocation of fn, and its result arrived.
C1_Witness ==
  \E f \in FetchIds :
    /\ startClean[f] /\ ~resetInFlight[f]
    /\ waiters[f] = 3
    /\ fnCalls = 1
    /\ promise[f] = "ok"

C4_WindowHonoured ==
  [][\A f \in FetchIds :
       (get /\ fetchState[f] = "ok" /\ stored[f] /\ ~resetAfter[f] /\ ~WindowElapsed(f))
         => (fnCalls' = fnCalls /\ hits'[f] = hits[f] + 1)]_vars

\* C5  Cache freshness.  After an undisturbed cycle succeeded, a get() issued
\* before wait_ms is over returns the cached result and calls fn no further
\* time; once the timer has fired the next get() calls fn once more, and the
\* cycle it starts is again one from the empty cache.
C5_Freshness ==
  [][\A f \in FetchIds :
       /\ (get /\ fetchState[f] = "ok" /\ Undisturbed(f) /\ ~WindowElapsed(f))
            => (fnCalls' = fnCalls /\ hits'[f] = hits[f] + 1 /\ cachedResult' = f)
       /\ (get /\ fetchState[f] = "ok" /\ Undisturbed(f) /\ timers[f] = "fired"
               /\ fnCalls = f)
            => (fnCalls' = f + 1 /\ cachedResult' = f + 1 /\ startClean'[f + 1])
       /\ (TimerFires(f) /\ Undisturbed(f)) => (WindowElapsed(f) /\ cachedResult = f)]_vars

\* A get() within the window was served from the cache; the timer fired; the
\* next get() fetched again.
C5_Witness ==
  \E f \in FetchIds :
    /\ fetchState[f] = "ok" /\ Undisturbed(f)
    /\ hits[f] >= 1
    /\ timers[f] = "fired"
    /\ fnCalls = f + 1 /\ startClean[f + 1]

\* C6  Explicit invalidation.  A reset() called while a successful result is
\* cached clears cachedResult and timeoutId and cancels the timer timeoutId
\* recorded, which in an undisturbed cycle is the pending timer of that
\* result; the next get() calls fn again, wait_ms over or not.
C6_ExplicitInvalidation ==
  [][\A f \in FetchIds :
       /\ (CallReset /\ cachedResult = f /\ fetchState[f] = "ok")
            => /\ cachedResult' = None /\ timeoutId' = None
               /\ timeoutId # None => timers'[timeoutId] # "armed"
       /\ (CallReset /\ fetchState[f] = "ok" /\ Undisturbed(f) /\ timers[f] = "armed")
            => (cachedResult = f /\ timeoutId = f /\ timers'[f] = "cleared")
       /\ (get /\ fetchState[f] = "ok" /\ resetAfter[f] /\ fnCalls = f)
            => (fnCalls' = f + 1 /\ cachedResult' = f + 1)]_vars

\* A successful result was reset before wait_ms was over, its timer was
\* cancelled, and the next get() fetched again.
C6_Witness ==
  \E f \in FetchIds :
    /\ fetchState[f] = "ok" /\ startClean[f] /\ ~resetInFlight[f] /\ resetAfter[f]
    /\ ~WindowElapsed(f)
    /\ timers[f] = "cleared"
    /\ fnCalls = f + 1 /\ f \notin pendingAtStart[f + 1]

\* C7  Shared outcome.  The promise the callers of a cycle hold settles as the
\* fetch did, so when the fetch fails each of them receives that failure; and
\* in a cycle from the empty cache with no reset(), no caller started a fetch
\* of its own while the cycle's fetch was pending.
C7_SharedOutcome ==
  \A f \in FetchIds :
    /\ Settled(f) => promise[f] = fetchState[f]
    /\ Pending(f) => promise[f] = "pending"
    /\ (startClean[f] /\ ~resetInFlight[f])
         => \A g \in FetchIds : f \notin pendingAtStart[g]

\* Three callers joined one cycle and its fetch failed.
C7_Witness ==
  \E f \in FetchIds :
    /\ startClean[f] /\ ~resetInFlight[f]
    /\ waiters[f] = 3
    /\ fetchState[f] = "fail" /\ promise[f] = "fail"

\* What a write may or may not touch: the closure of the throttle, the
\* promises and the timers.
cacheState == <<cachedResult, timeoutId, fetchState, promise, timers, settleOrder>>

C9_FailedWriteKeepsCache ==
  [][\A i \in 1..MaxPosts :
       /\ \A e \in Errors :
            postFail(i, e) => /\ UNCHANGED cacheState
                              /\ posts'[i].resp = e
                              /\ posts'[i].out = e
       /\ \A op \in Ops : postStart(op) => UNCHANGED cacheState]_vars

\* A write failed with a transport error while a result was cached and its
\* timer pending: both are still there.
C9_Witness ==
  \E i \in 1..Len(posts), f \in FetchIds :
    /\ posts[i].resp = "E500" /\ posts[i].out = "E500"
    /\ cachedResult = f /\ fetchState[f] = "ok"
    /\ timeoutId = f /\ timers[f] = "armed"
    /\ hits[f] >= 1

\* C10 as claimed, for Platform.houseStatus(): a call made after a write has
\* returned successfully is never handed the promise of a fetch that started
\* before that write completed.
C10_ReadYourWrites ==
  [][houseStatus =>
       \A f \in FetchIds :
         (waiters'[f] # waiters[f] \/ hits'[f] # hits[f]) => ~preWrite'[f]]_vars

\* A second reset() in the current state would change nothing of the closure
\* variables and of the timers.
resetIsNoOp == ENABLED (reset(timers) /\ UNCHANGED <<cachedResult, timeoutId, timers>>)

\* C11  reset() is idempotent and safe on an empty cache.  reset() has no
\* failing path: it can be called in every state.  Called with nothing cached
\* and no timer pending it changes nothing; called in any state it leaves a
\* state (nothing cached, no timer recorded) in which a further reset()
\* changes nothing, so reset(); reset() leaves what one reset() leaves.
C11_ResetIdempotent ==
  [][/\ (nReset < MaxResets) => ENABLED CallReset
     /\ (CallReset /\ cachedResult = None /\ Armed = {})
          => UNCHANGED <<cachedResult, timeoutId, timers>>
     /\ CallReset => (cachedResult' = None /\ timeoutId' = None /\ resetIsNoOp')]_vars

\* reset() was called before anything was fetched, and the cache is as empty
\* as it was.
C11_Witness ==
  /\ nReset = 1
  /\ \A f \in FetchIds : ~resetInFlight[f] /\ ~resetAfter[f]
  /\ cachedResult = None /\ timeoutId = None /\ Armed = {}
  /\ fnCalls = 0

\* The document has a child link of the device-collection item type.
hasDeviceLink == \E k \in DOMAIN raw.child : raw.child[k].data.item_type = DEVICE_ITEM_TYPE

\* C12 as claimed: on a document with no child link of the device-collection
\* item type, thermostats() returns the empty sequence and does not fail.
C12_MissingLinkYieldsEmpty ==
  (ret.op = "thermostats" /\ ~hasDeviceLink) => ret.res = Return(<< >>)

\* C15  Device filtering.  On a document with a device-collection link (the
\* first child of that item type), thermostats() returns, without failing, the
\* items of the link whose type is the thermostat marker: each returned item
\* is one, all of them are returned, and they come in the order of the link.
C15_DeviceFiltering ==
  (ret.op = "thermostats") =>
    \A k \in DOMAIN raw.child :
      ( /\ raw.child[k].data.item_type = DEVICE_ITEM_TYPE
        /\ \A j \in 1..(k - 1) : raw.child[j].data.item_type # DEVICE_ITEM_TYPE )
      => LET items == raw.child[k].data.items
             out   == ret.res.val
         IN /\ ret.res.out = "return"
            /\ \A i \in DOMAIN out : out[i].type = THERMOSTAT_DEVICE_TYPE
            /\ Len(out) = Cardinality({i \in DOMAIN items :
                                          items[i].type = THERMOSTAT_DEVICE_TYPE})
            /\ \E pos \in [DOMAIN out -> DOMAIN items] :
                 /\ \A i, j \in DOMAIN out : i < j => pos[i] < pos[j]
                 /\ \A i \in DOMAIN out : out[i] = items[pos[i]]

\* thermostats() ran on a device collection that holds another device and a
\* thermostat, after a child link of another kind, and returned the thermostat.
C15_Witness ==
  /\ ret.op = "thermostats"
  /\ Len(raw.child) = 2
  /\ raw.child[1].data.item_type # DEVICE_ITEM_TYPE
  /\ raw.child[2].data.item_type = DEVICE_ITEM_TYPE
  /\ Len(raw.child[2].data.items) = 2
  /\ raw.child[2].data.items[1].type # THERMOSTAT_DEVICE_TYPE
  /\ raw.child[2].data.items[2].type = THERMOSTAT_DEVICE_TYPE
  /\ ret.res = Return(<< raw.child[2].data.items[2] >>)

\* C14 as claimed: a call of zone(tid, zid) that gets the house status
\* returns the zone when the device collection of that snapshot holds
\* thermostat tid and that thermostat holds zone zid, and fails otherwise
\* with a not-found Error that carries both ids.  (The lookups that come to
\* their result in a step are those that get the snapshot raw'.)
C14_FailFastZoneLookup ==
  [][\A n \in DOMAIN lookups' :
       LET l == lookups'[n]
       IN ( /\ l.op = "zone"
            /\ n \in DOMAIN lookups => lookups[n].res = Awaiting
            /\ l.res # Awaiting
            /\ promise'[l.f] = "ok" ) =>
         LET doc   == raw'
             links == {k \in DOMAIN doc.child : doc.child[k].data.item_type = DEVICE_ITEM_TYPE}
             items == IF links = {} THEN << >>
                      ELSE doc.child[CHOOSE k \in links : \A j \in links : k <= j].data.items
             ts    == {i \in DOMAIN items : /\ items[i].type = THERMOSTAT_DEVICE_TYPE
                                            /\ items[i].id = l.tid}
             zs    == IF ts = {} THEN << >>
                      ELSE items[CHOOSE i \in ts : \A j \in ts : i <= j].zones
             found == {i \in DOMAIN zs : zs[i].id = l.zid}
         IN IF found # {}
              THEN /\ l.res.out = "return"
                   /\ Len(l.res.val) = 1
                   /\ l.res.val[1].id = l.zid
              ELSE /\ l.res.out = "Error"
                   /\ {l.res.ids[i] : i \in DOMAIN l.res.ids} = {l.tid, l.zid}
                   /\ Len(l.res.ids) = 2]_vars

\* C13 as claimed: a write called on a zone that lacks the feature it needs
\* fails at the call with a FeatureNotFound error, no request is issued, and
\* the cache is left as it is.
C13_FeatureAbsenceFailsCleanly ==
  [][\A op \in Ops, z \in Zones :
       (onSet(op, z) /\ url(op, z).out # "return")
         => /\ posts' = Append(posts, [resp |-> "none", out |-> "FeatureNotFound"])
            /\ UNCHANGED cacheState]_vars

\* C16 as claimed: every write that issued a request used a Zone of the
\* snapshot that was the one fetched last when the write was called.
C16_NoStaleZone ==
  \A i \in DOMAIN postSnap :
    posts[i].resp # "none" => postSnap[i].used = postSnap[i].latest

C18_AtMostOneTimer ==
  /\ Cardinality(Armed) <= 1
  /\ \A t \in Armed : timeoutId = t

\* C19  Liveness of the cache cycle.  When every started fetch settles and
\* every timer that is due fires: no caller holds a promise that stays pending
\* for ever, so each receives a value or a failure; no settled promise,
\* resolved or rejected, stays cached for ever, so each stored outcome is
\* discarded; the cache is empty again and again; and a get() that finds it
\* empty calls fn.  (A promise does not go back to pending and a fetch does
\* not unsettle, so "not for ever" is "eventually, and from then on".)
C19_CacheCycleLive ==
  /\ \A f \in FetchIds : []<>(~(waiters[f] >= 1 /\ promise[f] = "pending"))
  /\ \A f \in FetchIds : []<>(~(cachedResult = f /\ Settled(f)))
  /\ []<>(cachedResult = None)
  /\ [][(get /\ cachedResult = None) => fnCalls' = fnCalls + 1]_vars

\* A failure was stored and served to a caller, its timer fired, and the next
\* get() started another fetch.
C19_Witness ==
  \E f \in FetchIds :
    /\ fetchState[f] = "fail" /\ stored[f] /\ hits[f] >= 1
    /\ timers[f] = "fired"
    /\ fnCalls = f + 1 /\ cachedResult = f + 1

====
